---- MODULE Spec2Model ----
(***************************************************************************)
(* Model of the "Social Insecurity" Flask application: the data-access     *)
(* layer of src/app/database.py (class SQLite3) and the request handlers   *)
(* of src/app/routes.py.                                                   *)
(*                                                                         *)
(* Text is a sequence of one-character strings, so that html.escape is     *)
(* computed character by character as the library does.  A table is the    *)
(* sequence of its rows in insertion order; a row id is the row's          *)
(* position (INTEGER PRIMARY KEY, no row is ever deleted).                 *)
(***************************************************************************)
EXTENDS Integers, Sequences, FiniteSets, TLC

VARIABLES
    users,      \* table Users
    posts,      \* table Posts
    comments,   \* table Comments
    friends,    \* table Friends
    clock,      \* the second CURRENT_TIMESTAMP reads
    req,        \* the request handled last
    resp,       \* the response given to it
    workers     \* friends requests in flight (concurrent specification)

vars == <<users, posts, comments, friends, clock, req, resp, workers>>

(***************************************************************************)
(* Bounds of the model.                                                    *)
(***************************************************************************)
MaxUsers == 3
MaxPosts == 2
MaxComments == 1
MaxFriends == 2
MaxTime == 1

(***************************************************************************)
(* Inputs.                                                                 *)
(***************************************************************************)
Names == {<<"a">>, <<"b">>, <<"c">>}
PlainText == <<"h", "i">>
Markup == <<"<", "b", ">", "&", "\"", "'">>
Texts == {PlainText, Markup}
Passwords == {<<"p">>, <<"&">>, <<"&", "a", "m", "p", ";">>}
Birthdays == {<<"1">>, <<"2">>}
Image == <<"i", ".", "p", "n", "g">>
Workers == {1, 2}
TwoNames == {<<"a">>, <<"b">>}
OneName == {<<"a">>}
PostIds == {1, 7}
\* profile forms: markup in no free-text field, in one of them, or in all
ProfileForms ==
    {f \in [1..5 -> Texts] : Cardinality({i \in 1..5 : f[i] = Markup}) \in {0, 1, 5}}

Null == <<"NULL">>
None == [id |-> 0]

Range(s) == {s[i] : i \in 1..Len(s)}

(***************************************************************************)
(* html.escape(s, quote=True): "&" first, then "<", ">", '"' and "'".      *)
(* Replacing "&" first makes the result the character-wise substitution.   *)
(***************************************************************************)
EscChar(c) ==
    CASE c = "&" -> <<"&", "a", "m", "p", ";">>
      [] c = "<" -> <<"&", "l", "t", ";">>
      [] c = ">" -> <<"&", "g", "t", ";">>
      [] c = "\"" -> <<"&", "q", "u", "o", "t", ";">>
      [] c = "'" -> <<"&", "#", "x", "2", "7", ";">>
      [] OTHER -> <<c>>

RECURSIVE EscapeRec(_)
EscapeRec(s) == IF s = <<>> THEN <<>> ELSE EscChar(Head(s)) \o EscapeRec(Tail(s))

Escape(s) == EscapeRec(s)

(***************************************************************************)
(* flask_bcrypt.  A hash is text over the alphabet [./A-Za-z0-9$], which   *)
(* html.escape leaves alone; it is modelled as the tag "$" followed by an  *)
(* injective re-spelling of the password in that alphabet (no collisions,  *)
(* salts left out), and check_password_hash(h, x) as h = hash(x).          *)
(***************************************************************************)
HashChar(c) ==
    CASE c = "&" -> "A"
      [] c = ";" -> "S"
      [] c = "<" -> "L"
      [] c = ">" -> "G"
      [] c = "\"" -> "Q"
      [] c = "'" -> "P"
      [] c = "#" -> "H"
      [] OTHER -> c

generate_password_hash(p) == <<"$">> \o [i \in 1..Len(p) |-> HashChar(p[i])]

check_password_hash(h, x) == h = generate_password_hash(x)

(***************************************************************************)
(* Schema (schema.sql): Users.username is UNIQUE; Friends holds plain      *)
(* (u_id, f_id) rows.                                                      *)
(***************************************************************************)
UsersUsernameUnique == TRUE
FriendsPairUnique == FALSE

(***************************************************************************)
(* SQLite3.get_user                                                        *)
(***************************************************************************)
get_user(U, username) ==
    LET m == {i \in 1..Len(U) : U[i].username = Escape(username)}
    IN  IF m = {} THEN None ELSE U[CHOOSE i \in m : \A j \in m : i <= j]

(***************************************************************************)
(* SQLite3.create_user: the INSERT raises sqlite3.IntegrityError on a      *)
(* username the table already holds, and otherwise adds one row and        *)
(* returns cursor.rowcount = 1.                                            *)
(***************************************************************************)
create_user(U, username, first_name, last_name, password) ==
    IF UsersUsernameUnique /\ \E i \in 1..Len(U) : U[i].username = Escape(username)
    THEN [raised |-> TRUE, rowcount |-> 0, table |-> U]
    ELSE [raised |-> FALSE, rowcount |-> 1,
          table |-> Append(U, [id |-> Len(U) + 1,
                               username |-> Escape(username),
                               first_name |-> Escape(first_name),
                               last_name |-> Escape(last_name),
                               password |-> Escape(password),
                               education |-> Null, employment |-> Null,
                               music |-> Null, movie |-> Null,
                               nationality |-> Null, birthday |-> Null])]

(***************************************************************************)
(* SQLite3.connection: sqlite3.connect(path) and nothing more.  SQLite     *)
(* enforces foreign keys only after PRAGMA foreign_keys = ON, which the    *)
(* connection never issues.                                                *)
(***************************************************************************)
ForeignKeysEnforced == FALSE

(***************************************************************************)
(* SQLite3.create_post                                                     *)
(***************************************************************************)
create_post(P, U, now, u_id, content, image) ==
    LET sanitized_content == Escape(content)
    IN  IF ForeignKeysEnforced /\ ~\E i \in 1..Len(U) : U[i].id = u_id
        THEN [raised |-> TRUE, rowcount |-> 0, table |-> P]
        ELSE [raised |-> FALSE, rowcount |-> 1,
              table |-> Append(P, [id |-> Len(P) + 1, u_id |-> u_id,
                                   content |-> sanitized_content,
                                   image |-> image, creation_time |-> now])]

(***************************************************************************)
(* SQLite3.get_post: the post joined with its author, or None.             *)
(***************************************************************************)
get_post(P, U, post_id) ==
    IF post_id \in 1..Len(P) /\ \E i \in 1..Len(U) : U[i].id = P[post_id].u_id
    THEN P[post_id]
    ELSE None

(***************************************************************************)
(* ORDER BY creation_time DESC: every arrangement of the selected rows in  *)
(* which the creation times never increase.  SQL leaves the order of rows  *)
(* with equal keys open.                                                   *)
(***************************************************************************)
OrderByCreationTimeDesc(T, ids) ==
    {s \in [1..Cardinality(ids) -> ids] :
        /\ \A i, j \in 1..Cardinality(ids) : i # j => s[i] # s[j]
        /\ \A i, j \in 1..Cardinality(ids) :
              i < j => T[s[i]].creation_time >= T[s[j]].creation_time}

(***************************************************************************)
(* SQLite3.get_posts: the ids of the selected posts, in each order the     *)
(* query may return them.                                                  *)
(***************************************************************************)
\* a feed query that follows the user's own edges only
get_posts_where_outbound(P, U, F, user_id) ==
    {i \in 1..Len(P) :
        /\ \E k \in 1..Len(U) : U[k].id = P[i].u_id
        /\ \/ P[i].u_id \in {F[k].f_id : k \in {n \in 1..Len(F) : F[n].u_id = user_id}}
           \/ P[i].u_id = user_id}

get_posts_where(P, U, F, user_id) ==
    {i \in 1..Len(P) :
        /\ \E k \in 1..Len(U) : U[k].id = P[i].u_id
        /\ \/ P[i].u_id \in {F[k].u_id : k \in {n \in 1..Len(F) : F[n].f_id = user_id}}
           \/ P[i].u_id \in {F[k].f_id : k \in {n \in 1..Len(F) : F[n].u_id = user_id}}
           \/ P[i].u_id = user_id}

get_posts(P, U, F, user_id) ==
    OrderByCreationTimeDesc(P, get_posts_where(P, U, F, user_id))

(***************************************************************************)
(* SQLite3.create_comment                                                  *)
(***************************************************************************)
\* a create_comment that stores the text as submitted
create_comment_unescaped(C, P, U, now, post_id, user_id, comment) ==
    [raised |-> FALSE, rowcount |-> 1,
     table |-> Append(C, [id |-> Len(C) + 1, p_id |-> post_id,
                          u_id |-> user_id, comment |-> comment,
                          creation_time |-> now])]

create_comment(C, P, U, now, post_id, user_id, comment) ==
    IF ForeignKeysEnforced /\ ~(post_id \in 1..Len(P) /\ user_id \in 1..Len(U))
    THEN [raised |-> TRUE, rowcount |-> 0, table |-> C]
    ELSE [raised |-> FALSE, rowcount |-> 1,
          table |-> Append(C, [id |-> Len(C) + 1, p_id |-> post_id,
                               u_id |-> user_id, comment |-> Escape(comment),
                               creation_time |-> now])]

(***************************************************************************)
(* SQLite3.get_comments                                                    *)
(***************************************************************************)
get_comments(C, U, post_id) ==
    OrderByCreationTimeDesc(C,
        {i \in 1..Len(C) : /\ C[i].p_id = post_id
                           /\ \E k \in 1..Len(U) : U[k].id = C[i].u_id})

(***************************************************************************)
(* SQLite3.get_friend: the f_id of every row whose u_id is user_id.        *)
(***************************************************************************)
\* a get_friend that reads friendship as symmetric: an inbound row counts too
get_friend_symmetric(F, user_id) ==
    LET rows == SelectSeq(F, LAMBDA e : e.u_id = user_id \/ e.f_id = user_id)
    IN  [i \in 1..Len(rows) |->
            IF rows[i].u_id = user_id
            THEN rows[i]
            ELSE [u_id |-> user_id, f_id |-> rows[i].u_id]]

get_friend(F, user_id) ==
    SelectSeq(F, LAMBDA e : e.u_id = user_id)

(***************************************************************************)
(* SQLite3.get_friends: the rows of user_id that do not point at user_id   *)
(* and whose f_id is a user, in table order.                               *)
(***************************************************************************)
get_friends(F, U, user_id) ==
    SelectSeq(F, LAMBDA e : /\ e.u_id = user_id
                            /\ e.f_id # user_id
                            /\ \E k \in 1..Len(U) : U[k].id = e.f_id)

(***************************************************************************)
(* SQLite3.create_friend                                                   *)
(***************************************************************************)
create_friend(F, user_id, friend_id) ==
    IF FriendsPairUnique /\ \E i \in 1..Len(F) : F[i] = [u_id |-> user_id, f_id |-> friend_id]
    THEN [raised |-> TRUE, rowcount |-> 0, table |-> F]
    ELSE [raised |-> FALSE, rowcount |-> 1,
          table |-> Append(F, [u_id |-> user_id, f_id |-> friend_id])]

(***************************************************************************)
(* SQLite3.update_profile                                                  *)
(***************************************************************************)
\* an UPDATE without its WHERE clause
update_profile_every_row(U, username, education, employment, music, movie, nationality, birthday) ==
    [raised |-> FALSE, rowcount |-> Len(U),
     table |-> [i \in 1..Len(U) |->
                  [U[i] EXCEPT !.education = Escape(education),
                               !.employment = Escape(employment),
                               !.music = Escape(music),
                               !.movie = Escape(movie),
                               !.nationality = Escape(nationality),
                               !.birthday = birthday]]]

update_profile(U, username, education, employment, music, movie, nationality, birthday) ==
    LET hit == {i \in 1..Len(U) : U[i].username = Escape(username)}
    IN  [raised |-> FALSE, rowcount |-> Cardinality(hit),
         table |-> [i \in 1..Len(U) |->
                      IF i \in hit
                      THEN [U[i] EXCEPT !.education = Escape(education),
                                        !.employment = Escape(employment),
                                        !.music = Escape(music),
                                        !.movie = Escape(movie),
                                        !.nationality = Escape(nationality),
                                        !.birthday = birthday]
                      ELSE U[i]]]

(***************************************************************************)
(* Requests and responses.                                                 *)
(***************************************************************************)
Request(page, form, url, pid, valid, fields) ==
    [page |-> page, form |-> form, url |-> url, pid |-> pid, valid |-> valid,
     fields |-> fields]

Response(kind, target, flash, data) ==
    [kind |-> kind, target |-> target, flash |-> flash, data |-> data]

redirect(target) == Response("redirect", target, "", <<>>)
render_template(page, flash, data) == Response("render", page, flash, data)
ServerError(exc) == Response("error", exc, "", <<>>)

InvalidLogin == "Sorry, username or password is not valid!"
FriendAdded == "Friend successfully added!"
AlreadyFriends == "You are already friends with this user!"

Idle == [pc |-> "idle"]

Init ==
    /\ users = <<>>
    /\ posts = <<>>
    /\ comments = <<>>
    /\ friends = <<>>
    /\ clock = 0
    /\ req = Request("", "", <<>>, 0, FALSE, <<>>)
    /\ resp = Response("none", "", "", <<>>)
    /\ workers = [w \in Workers |-> Idle]

(***************************************************************************)
(* index(), login branch (routes.py 33-46).                                *)
(***************************************************************************)
\* a login that tells an unknown username from a wrong password
LoginResponseNamesUnknownUser(U, username, password, valid) ==
    IF ~valid
    THEN render_template("index", "Login form data is not valid or Empty", <<>>)
    ELSE LET user == get_user(U, username)
         IN  IF user = None
             THEN render_template("index", "User does not exist!", <<>>)
             ELSE IF ~check_password_hash(user.password, Escape(password))
             THEN render_template("index", InvalidLogin, <<>>)
             ELSE redirect(<<"stream", username>>)

LoginResponse(U, username, password, valid) ==
    IF ~valid
    THEN render_template("index", "Login form data is not valid or Empty", <<>>)
    ELSE LET user == get_user(U, username)
         IN  IF user = None
             THEN render_template("index", InvalidLogin, <<>>)
             ELSE IF ~check_password_hash(user.password, Escape(password))
             THEN render_template("index", InvalidLogin, <<>>)
             ELSE redirect(<<"stream", username>>)

Login(username, password, valid) ==
    /\ req' = Request("index", "login", <<>>, 0, valid, <<username, password>>)
    /\ resp' = LoginResponse(users, username, password, valid)
    /\ UNCHANGED <<users, posts, comments, friends, clock, workers>>

(***************************************************************************)
(* index(), register branch (routes.py 48-84).                             *)
(***************************************************************************)
Register(username, first_name, last_name, password, valid) ==
    /\ req' = Request("index", "register", <<>>, 0, valid,
                      <<username, first_name, last_name, password>>)
    /\ IF ~valid
       THEN /\ resp' = render_template("index", "validation errors", <<>>)
            /\ UNCHANGED users
       ELSE LET hashed_password == generate_password_hash(password)
                response == create_user(users, username, first_name, last_name,
                                        hashed_password)
            IN  /\ Len(response.table) <= MaxUsers
                /\ users' = response.table
                /\ resp' = IF response.raised
                           THEN ServerError("sqlite3.IntegrityError")
                           ELSE IF response.rowcount = 1
                           THEN redirect(<<"index">>)
                           ELSE render_template("index",
                                   "Somthing went wrong, user was not created!", <<>>)
    /\ UNCHANGED <<posts, comments, friends, clock, workers>>

(***************************************************************************)
(* stream() (routes.py 89-112).  user["id"] on a user that get_user did    *)
(* not find raises TypeError before any statement runs.                    *)
(***************************************************************************)
\* a stream handler that renders the page after the insert
StreamPostedRendered(username) == render_template("stream", "", <<>>)

\* line 108: return redirect(url_for("stream", username=username))
StreamPosted(username) == redirect(<<"stream", username>>)

Stream(username, content, image, valid) ==
    LET user == get_user(users, username)
    IN  /\ req' = Request("stream", "post", username, 0, valid, <<content, image>>)
        /\ IF user = None
           THEN /\ resp' = ServerError("TypeError")
                /\ UNCHANGED posts
           ELSE IF valid
           THEN LET response == create_post(posts, users, clock, user.id, content, image)
                IN  /\ Len(response.table) <= MaxPosts
                    /\ posts' = response.table
                    /\ resp' = IF response.raised
                               THEN ServerError("sqlite3.IntegrityError")
                               ELSE StreamPosted(username)
           ELSE /\ \E rows \in get_posts(posts, users, friends, user.id) :
                       resp' = render_template("stream", "", rows)
                /\ UNCHANGED posts
        /\ UNCHANGED <<users, comments, friends, clock, workers>>

(***************************************************************************)
(* comments() (routes.py 115-135).                                         *)
(***************************************************************************)
Comments(username, post_id, comment, valid) ==
    LET user == get_user(users, username)
    IN  /\ req' = Request("comments", "comment", username, post_id, valid, <<comment>>)
        /\ IF valid /\ user = None
           THEN /\ resp' = ServerError("TypeError")
                /\ UNCHANGED comments
           ELSE LET response == IF valid
                                THEN create_comment(comments, posts, users, clock,
                                                    post_id, user.id, comment)
                                ELSE [raised |-> FALSE, rowcount |-> 0, table |-> comments]
                IN  /\ Len(response.table) <= MaxComments
                    /\ comments' = response.table
                    /\ IF response.raised
                       THEN resp' = ServerError("sqlite3.IntegrityError")
                       ELSE \E rows \in get_comments(response.table, users, post_id) :
                               resp' = render_template("comments", "",
                                          <<get_post(posts, users, post_id).id, rows>>)
        /\ UNCHANGED <<users, posts, friends, clock, workers>>

(***************************************************************************)
(* friends() (routes.py 138-168), statement by statement.                  *)
(***************************************************************************)
\* a friends handler that forgets the "yourself" branch
FriendsFlashNoSelfCheck(user, friend, friendList) ==
    IF friend = None
    THEN "User does not exist!"
    ELSE IF friend.id \in {friendList[i].f_id : i \in 1..Len(friendList)}
    THEN "You are already friends with this user!"
    ELSE "Friend successfully added!"

FriendsFlash(user, friend, friendList) ==
    IF friend = None
    THEN "User does not exist!"
    ELSE IF friend.id = user.id
    THEN "You cannot be friends with yourself!"
    ELSE IF friend.id \in {friendList[i].f_id : i \in 1..Len(friendList)}
    THEN "You are already friends with this user!"
    ELSE "Friend successfully added!"

\* a branch that looks the edge up again in the table it inserts into
FriendsBranchRechecked(F, user, friend, friendList) ==
    IF /\ FriendsFlash(user, friend, friendList) = FriendAdded
       /\ [u_id |-> user.id, f_id |-> friend.id] \notin Range(F)
    THEN create_friend(F, user.id, friend.id)
    ELSE [raised |-> FALSE, rowcount |-> 0, table |-> F]

\* lines 150-165: the table after the branch, given what the handler read
FriendsBranch(F, user, friend, friendList) ==
    IF FriendsFlash(user, friend, friendList) = FriendAdded
    THEN create_friend(F, user.id, friend.id)
    ELSE [raised |-> FALSE, rowcount |-> 0, table |-> F]

\* the whole handler on one connection, no other request in between
Friends(username, target, valid) ==
    LET user == get_user(users, username)
    IN  /\ req' = Request("friends", "friend", username, 0, valid, <<target>>)
        /\ IF user = None
           THEN /\ resp' = ServerError("TypeError")
                /\ UNCHANGED friends
           ELSE IF ~valid
           THEN /\ resp' = render_template("friends", "", get_friends(friends, users, user.id))
                /\ UNCHANGED friends
           ELSE LET friend == get_user(users, target)
                    friendList == get_friend(friends, user.id)
                    response == FriendsBranch(friends, user, friend, friendList)
                IN  /\ Len(response.table) <= MaxFriends
                    /\ friends' = response.table
                    /\ resp' = IF response.raised
                               THEN ServerError("sqlite3.IntegrityError")
                               ELSE render_template("friends",
                                       FriendsFlash(user, friend, friendList),
                                       get_friends(response.table, users, user.id))
        /\ UNCHANGED <<users, posts, comments, clock, workers>>

(***************************************************************************)
(* profile() (routes.py 171-190).                                          *)
(***************************************************************************)
Profile(username, education, employment, music, movie, nationality, birthday, valid) ==
    LET user == get_user(users, username)
    IN  /\ req' = Request("profile", "profile", username, 0, valid,
                          <<education, employment, music, movie, nationality, birthday>>)
        /\ IF valid
           THEN LET response == update_profile(users, username, education, employment,
                                               music, movie, nationality, birthday)
                IN  /\ users' = response.table
                    /\ resp' = redirect(<<"profile", username>>)
           ELSE /\ resp' = render_template("profile", "", <<user.id>>)
                /\ UNCHANGED users
        /\ UNCHANGED <<posts, comments, friends, clock, workers>>

(***************************************************************************)
(* A second passes.                                                        *)
(***************************************************************************)
Tick ==
    /\ clock < MaxTime
    /\ clock' = clock + 1
    /\ UNCHANGED <<users, posts, comments, friends, req, resp, workers>>

(***************************************************************************)
(* friends() under concurrent requests: each request has its own           *)
(* connection (database.py 103-110) and each statement commits on its own  *)
(* (database.py 134-137, 219-222, 241-243), so another request's           *)
(* statements may run between any two of them.  A worker's pc is the       *)
(* routes.py line it executes next.                                        *)
(***************************************************************************)
Worker(pc, username, target, user, friend, friendList) ==
    [pc |-> pc, username |-> username, target |-> target, user |-> user,
     friend |-> friend, friendList |-> friendList]

\* line 148: user = sqlite.get_user(username)
FriendsGetUser(w, username, target) ==
    /\ workers[w].pc = "idle"
    /\ workers' = [workers EXCEPT ![w] =
                      Worker("152", username, target, get_user(users, username), None, <<>>)]
    /\ req' = Request("friends", "friend", username, 0, TRUE, <<target>>)
    /\ UNCHANGED <<users, posts, comments, friends, clock, resp>>

\* line 152: friend = sqlite.get_user(friends_form.username.data)
FriendsGetFriend(w) ==
    /\ workers[w].pc = "152"
    /\ workers' = [workers EXCEPT ![w].pc = "154",
                                  ![w].friend = get_user(users, workers[w].target)]
    /\ UNCHANGED <<users, posts, comments, friends, clock, req, resp>>

\* line 154: friends = sqlite.get_friend(user["id"])
FriendsGetFriendList(w) ==
    /\ workers[w].pc = "154"
    /\ IF workers[w].user = None
       THEN /\ workers' = [workers EXCEPT ![w] = Idle]
            /\ resp' = ServerError("TypeError")
       ELSE /\ workers' = [workers EXCEPT ![w].pc = "156",
                              ![w].friendList = get_friend(friends, workers[w].user.id)]
            /\ UNCHANGED resp
    /\ UNCHANGED <<users, posts, comments, friends, clock, req>>

\* lines 156-165: the branch, and create_friend when it is taken
FriendsCreate(w) ==
    /\ workers[w].pc = "156"
    /\ LET me == workers[w]
           response == FriendsBranch(friends, me.user, me.friend, me.friendList)
       IN  /\ Len(response.table) <= MaxFriends
           /\ friends' = response.table
           /\ IF response.raised
              THEN /\ workers' = [workers EXCEPT ![w] = Idle]
                   /\ resp' = ServerError("sqlite3.IntegrityError")
              ELSE /\ workers' = [workers EXCEPT ![w].pc = "167"]
                   /\ UNCHANGED resp
    /\ UNCHANGED <<users, posts, comments, clock, req>>

\* lines 167-168: friends = sqlite.get_friends(user["id"]); render
FriendsRender(w) ==
    /\ workers[w].pc = "167"
    /\ LET me == workers[w]
       IN  resp' = render_template("friends",
                                   FriendsFlash(me.user, me.friend, me.friendList),
                                   get_friends(friends, users, me.user.id))
    /\ workers' = [workers EXCEPT ![w] = Idle]
    /\ UNCHANGED <<users, posts, comments, friends, clock, req>>

(***************************************************************************)
(* Properties.                                                             *)
(***************************************************************************)
UserIds == {users[i].id : i \in 1..Len(users)}
Edge(u, f) == [u_id |-> u, f_id |-> f]
IsFriendsStep == req'.page = "friends" /\ workers' = workers

\* C1: under SpecFriends (friends submissions handled one at a time), every
\* step that changes Friends appends exactly one edge (u, f) where u is the
\* requesting user, f is the id of an existing user, f # u and (u, f) was not
\* in the table before the step; and a submission naming the requester
\* itself leaves Friends unchanged.
C1_InsertedEdgesAreValid ==
    [][/\ friends' # friends =>
            \E f \in UserIds :
                LET u == get_user(users, req'.url).id
                IN  /\ u \in UserIds
                    /\ f # u
                    /\ Edge(u, f) \notin Range(friends)
                    /\ friends' = Append(friends, Edge(u, f))
       /\ (IsFriendsStep /\ req'.url = req'.fields[1]) => friends' = friends
      ]_vars

\* C1 witness: the friends handler has just inserted an edge between two
\* different existing users.
C1_Witness ==
    /\ req.page = "friends"
    /\ resp.kind = "render"
    /\ resp.flash = FriendAdded
    /\ Len(friends) >= 1
    /\ friends[Len(friends)] = Edge(get_user(users, req.url).id,
                                    get_user(users, req.fields[1]).id)

\* C8: under SpecFriends, a valid friends submission by an existing user A
\* naming another existing user B is rejected as "already friends" and
\* leaves Friends unchanged when the edge (A, B) is stored, and is accepted,
\* appending (A, B), when only the opposite edge (B, A) is stored.
C8_OutboundCheckOnly ==
    [][(IsFriendsStep /\ req'.valid) =>
          LET a == get_user(users, req'.url)
              b == get_user(users, req'.fields[1])
          IN  (a # None /\ b # None /\ a.id # b.id) =>
                /\ Edge(a.id, b.id) \in Range(friends) =>
                      /\ friends' = friends
                      /\ resp'.flash = AlreadyFriends
                /\ (Edge(a.id, b.id) \notin Range(friends)
                      /\ Edge(b.id, a.id) \in Range(friends)) =>
                      /\ friends' = Append(friends, Edge(a.id, b.id))
                      /\ resp'.flash = FriendAdded
      ]_vars

\* C8 witness: the edge (A, B) was stored first, and the submission by B
\* naming A has just been accepted and stored (B, A) after it.
C8_Witness ==
    /\ req.page = "friends"
    /\ resp.flash = FriendAdded
    /\ \E i, j \in 1..Len(friends) :
          /\ i < j
          /\ j = Len(friends)
          /\ friends[j] = Edge(get_user(users, req.url).id,
                               get_user(users, req.fields[1]).id)
          /\ friends[i] = Edge(friends[j].f_id, friends[j].u_id)

\* C9: under SpecConc (friends requests interleaved statement by
\* statement), the insert is decided by what the request read at its own
\* check and by nothing else: a request whose check saw no edge (A, B)
\* appends (A, B) when it reaches its insert, whatever the table holds by
\* then, and a request whose check saw the edge inserts nothing.
C9_InsertRestsOnOwnCheck ==
    [][\A w \in Workers :
          (workers[w].pc = "156" /\ workers'[w].pc # "156") =>
              LET me == workers[w]
                  passed == /\ me.friend # None
                            /\ me.friend.id # me.user.id
                            /\ Edge(me.user.id, me.friend.id) \notin Range(me.friendList)
              IN  IF passed
                  THEN friends' = Append(friends, Edge(me.user.id, me.friend.id))
                  ELSE friends' = friends
      ]_vars

\* C9 witness: two interleaved submissions by A naming B both passed the
\* check, and Friends holds the edge (A, B) twice.
C9_Witness ==
    \E i, j \in 1..Len(friends) :
        /\ i < j
        /\ friends[i] = friends[j]
        /\ \E w \in Workers :
              /\ workers[w].pc = "167"
              /\ Edge(workers[w].user.id, workers[w].friend.id) = friends[j]
              /\ Edge(workers[w].user.id, workers[w].friend.id)
                    \notin Range(workers[w].friendList)

Tables == <<users, posts, comments, friends>>

\* C2: under Spec, a valid register submission for a username the Users
\* table does not hold creates the user and is redirected to index; one for
\* a username it already holds is answered with the rendered index page and
\* a failure message, changes nothing, and in both cases the table then
\* holds exactly one row for that username.
C2_DuplicateRegistrationRejected ==
    [][(req'.form = "register" /\ req'.valid) =>
          LET name == Escape(req'.fields[1])
              held == \E i \in 1..Len(users) : users[i].username = name
          IN  /\ Cardinality({i \in 1..Len(users') : users'[i].username = name}) = 1
              /\ IF held
                 THEN /\ resp'.kind = "render"
                      /\ resp'.flash # ""
                      /\ users' = users
                 ELSE resp' = redirect(<<"index">>)
      ]_vars

\* C7: under Spec, a valid login submission that is not redirected gets the
\* same response (the index page rendered with the one invalid-credentials
\* message) and leaves every table unchanged, both when the username is
\* unknown and when it is known and the password does not verify.
C7_LoginFailuresIndistinguishable ==
    [][(req'.form = "login" /\ req'.valid) =>
          LET user == get_user(users, req'.fields[1])
              unknown == user = None
              wrong == /\ user # None
                       /\ ~check_password_hash(user.password, Escape(req'.fields[2]))
          IN  (unknown \/ wrong) =>
                 /\ resp' = render_template("index", InvalidLogin, <<>>)
                 /\ Tables' = Tables
      ]_vars

\* C7 witness: a login for a registered username with a password that does
\* not verify has just been answered with the invalid-credentials message.
C7_Witness ==
    /\ req.form = "login"
    /\ req.valid
    /\ get_user(users, req.fields[1]) # None
    /\ ~check_password_hash(get_user(users, req.fields[1]).password, Escape(req.fields[2]))
    /\ resp = render_template("index", InvalidLogin, <<>>)

\* C10: under Spec, after a valid login submission (u, q) for a user u that
\* registered with password p, the response is the redirect to u's stream
\* exactly when q = p.
C10_RegisterLoginRoundTrip ==
    (req.form = "login" /\ req.valid) =>
        \A i \in 1..Len(users), p \in Passwords :
            (/\ users[i].username = Escape(req.fields[1])
             /\ users[i].password = generate_password_hash(p)) =>
                ((resp = redirect(<<"stream", req.fields[1]>>)) <=> (req.fields[2] = p))

Connected(u, x) ==
    x = u \/ Edge(u, x) \in Range(friends) \/ Edge(x, u) \in Range(friends)

IsFeedOf(rows, u) ==
    /\ Range(rows) = {i \in 1..Len(posts) : Connected(u, posts[i].u_id)}
    /\ Len(rows) = Cardinality(Range(rows))

\* C3 as stated: under SpecFeed, every list get_posts(u) can return holds
\* exactly the posts of u and of the users connected to u by an edge in
\* either direction, each once, with strictly decreasing creation times.
C3_FeedStrictlyDescending ==
    \A u \in UserIds : \A rows \in get_posts(posts, users, friends, u) :
        /\ IsFeedOf(rows, u)
        /\ \A i, j \in 1..Len(rows) :
              i < j => posts[rows[i]].creation_time > posts[rows[j]].creation_time

\* C3 as amended: under SpecFeed, get_posts(u) has a result for every user
\* u, and every list it can return (and every list the stream page has
\* rendered) holds exactly the posts of u and of the users connected to u by
\* an edge in either direction, each once, with creation times that never
\* increase: posts created in the same second carry equal times.
C3_FeedDescending ==
    /\ \A u \in UserIds :
          /\ get_posts(posts, users, friends, u) # {}
          /\ \A rows \in get_posts(posts, users, friends, u) :
                /\ IsFeedOf(rows, u)
                /\ \A i, j \in 1..Len(rows) :
                      i < j => posts[rows[i]].creation_time >= posts[rows[j]].creation_time
    /\ (req.page = "stream" /\ resp.kind = "render") =>
          /\ IsFeedOf(resp.data, get_user(users, req.url).id)
          /\ \A i, j \in 1..Len(resp.data) :
                i < j => posts[resp.data[i]].creation_time
                            >= posts[resp.data[j]].creation_time

\* C3 witness: the stream page rendered for a user u lists a post of a user
\* x connected to u only by the edge (x, u), while the table also holds a
\* post of a user that is not connected to u.
C3_Witness ==
    /\ req.page = "stream"
    /\ resp.kind = "render"
    /\ LET u == get_user(users, req.url).id
       IN  /\ \E k \in 1..Len(resp.data) :
                 LET x == posts[resp.data[k]].u_id
                 IN  /\ x # u
                     /\ Edge(x, u) \in Range(friends)
                     /\ Edge(u, x) \notin Range(friends)
           /\ \E i \in 1..Len(posts) :
                 /\ ~Connected(u, posts[i].u_id)
                 /\ i \notin Range(resp.data)

\* the step handled a valid POST that stored or updated something (a
\* registration counts when it created the user)
Invoked ==
    /\ req'.valid
    /\ CASE req'.page = "index" -> users' # users
         [] req'.page = "stream" -> get_user(users, req'.url) # None
         [] req'.page = "comments" -> get_user(users, req'.url) # None
         [] req'.page = "friends" -> friends' # friends
         [] req'.page = "profile" -> TRUE
         [] OTHER -> FALSE

\* C4 as stated: under SpecPages, every valid POST that invokes a create or
\* update operation is answered with a redirect.
C4_EveryMutationRedirects ==
    [][Invoked => resp'.kind = "redirect"]_vars

\* C4 as amended: under SpecPages, a valid POST that creates a user, creates
\* a post or submits a profile update is answered with a redirect to index,
\* to the user's stream or to the user's profile, and a valid POST that
\* creates a comment or a friend edge is answered with the directly rendered
\* comments or friends view.
C4_RedirectAfterPost ==
    [][/\ (req'.page = "index" /\ users' # users) => resp' = redirect(<<"index">>)
       /\ posts' # posts => resp' = redirect(<<"stream", req'.url>>)
       /\ (req'.page = "profile" /\ req'.valid) => resp' = redirect(<<"profile", req'.url>>)
       /\ comments' # comments => (resp'.kind = "render" /\ resp'.target = "comments")
       /\ friends' # friends => (resp'.kind = "render" /\ resp'.target = "friends")
      ]_vars

\* C4 witness: a valid comments submission has stored its comment and was
\* answered with the rendered comments view that lists it.
C4_Witness ==
    /\ req.page = "comments"
    /\ req.valid
    /\ Len(comments) >= 1
    /\ comments[Len(comments)].p_id = req.pid
    /\ resp.kind = "render"
    /\ resp.target = "comments"
    /\ Len(comments) \in Range(resp.data[2])

ProfileFields(row) ==
    <<row.education, row.employment, row.music, row.movie, row.nationality, row.birthday>>

ProfileFrame ==
    LET k == get_user(users, req'.url).id
    IN  /\ Len(users') = Len(users)
        /\ \A i \in 1..Len(users) : i # k => users'[i] = users[i]
        /\ users'[k].id = users[k].id
        /\ users'[k].username = users[k].username
        /\ users'[k].first_name = users[k].first_name
        /\ users'[k].last_name = users[k].last_name
        /\ users'[k].password = users[k].password

\* C5 as stated: under SpecProfile, a valid profile submission for an
\* existing user U changes only the profile fields of U's row, and
\* get_user(U) then returns every profile field equal to the submitted value.
C5_ProfileStoredAsSubmitted ==
    [][(req'.page = "profile" /\ req'.valid /\ get_user(users, req'.url) # None) =>
          /\ ProfileFrame
          /\ ProfileFields(get_user(users', req'.url)) = req'.fields
      ]_vars

\* C5 as amended: under SpecProfile, a valid profile submission for an
\* existing user U changes only the profile fields of U's row, and
\* get_user(U) then returns education, employment, music, movie and
\* nationality equal to html.escape of the submitted value and birthday
\* equal to the submitted value.
C5_ProfileStoredEscaped ==
    [][(req'.page = "profile" /\ req'.valid /\ get_user(users, req'.url) # None) =>
          /\ ProfileFrame
          /\ ProfileFields(get_user(users', req'.url)) =
                <<Escape(req'.fields[1]), Escape(req'.fields[2]), Escape(req'.fields[3]),
                  Escape(req'.fields[4]), Escape(req'.fields[5]), req'.fields[6]>>
      ]_vars

\* C5 witness: with two users in the store, a profile submission holding
\* markup has just been stored for one of them, escaped, and the other
\* user's profile is still empty.
C5_Witness ==
    /\ req.page = "profile"
    /\ req.valid
    /\ Len(users) = 2
    /\ get_user(users, req.url) # None
    /\ req.fields[3] = Markup
    /\ get_user(users, req.url).music = Escape(Markup)
    /\ get_user(users, req.url).birthday = req.fields[6]
    /\ \E i \in 1..Len(users) : users[i].music = Null

FreeText ==
    {posts[i].content : i \in 1..Len(posts)}
    \cup {comments[i].comment : i \in 1..Len(comments)}
    \cup UNION {{users[i].first_name, users[i].last_name, users[i].education,
                 users[i].employment, users[i].music, users[i].movie,
                 users[i].nationality} : i \in 1..Len(users)}

\* C6: under SpecText, no free-text value in the store holds a raw "<" or
\* ">", and every step that writes one stores html.escape of the submitted
\* text, applied once, and leaves the free text of every other row as it
\* was: a post's content, a comment's text, a new user's first and last
\* name, and the five profile fields of the updated user.
C6_FreeTextEscapedOnce ==
    /\ [](\A t \in FreeText : "<" \notin Range(t) /\ ">" \notin Range(t))
    /\ [][/\ posts' # posts =>
                /\ SubSeq(posts', 1, Len(posts)) = posts
                /\ Len(posts') = Len(posts) + 1
                /\ posts'[Len(posts')].content = Escape(req'.fields[1])
          /\ comments' # comments =>
                /\ SubSeq(comments', 1, Len(comments)) = comments
                /\ Len(comments') = Len(comments) + 1
                /\ comments'[Len(comments')].comment = Escape(req'.fields[1])
          /\ (users' # users /\ req'.page = "index") =>
                /\ SubSeq(users', 1, Len(users)) = users
                /\ Len(users') = Len(users) + 1
                /\ users'[Len(users')].first_name = Escape(req'.fields[2])
                /\ users'[Len(users')].last_name = Escape(req'.fields[3])
          /\ (users' # users /\ req'.page # "index") =>
                /\ req'.page = "profile"
                /\ Len(users') = Len(users)
                /\ \A i \in 1..Len(users) :
                      /\ users'[i].first_name = users[i].first_name
                      /\ users'[i].last_name = users[i].last_name
                      /\ users'[i] # users[i] =>
                            \A k \in 1..5 :
                                ProfileFields(users'[i])[k] = Escape(req'.fields[k])
         ]_vars

\* C6 witness: the store holds a post, a comment, a first name and a profile
\* field that were each submitted as markup and are each stored escaped once.
C6_Witness ==
    /\ \E i \in 1..Len(posts) : posts[i].content = Escape(Markup)
    /\ \E i \in 1..Len(comments) : comments[i].comment = Escape(Markup)
    /\ \E i \in 1..Len(users) :
          /\ users[i].first_name = Escape(Markup)
          /\ users[i].movie = Escape(Markup)
    /\ Escape(Markup) # Markup
    /\ Escape(Markup) # Escape(Escape(Markup))

\* C11: under SpecPages, after every step each row of Comments has a p_id
\* that is the id of an existing post and a u_id that is the id of an
\* existing user, and a valid comments submission naming a post id that no
\* post has is answered with an error and stores no comment.
C11_CommentsReferToExistingRows ==
    [][/\ \A i \in 1..Len(comments') :
             /\ comments'[i].p_id \in {posts'[k].id : k \in 1..Len(posts')}
             /\ comments'[i].u_id \in {users'[k].id : k \in 1..Len(users')}
       /\ (/\ req'.page = "comments"
           /\ req'.valid
           /\ req'.pid \notin {posts[k].id : k \in 1..Len(posts)}) =>
              /\ resp'.kind = "error"
              /\ comments' = comments
      ]_vars

(***************************************************************************)
(* Specifications.  Each one runs the handlers of one part of the          *)
(* application with the inputs that part is sensitive to.                  *)
(***************************************************************************)
DefaultPassword == <<"p">>

\* the index page: registration and login
Next ==
    \/ \E u \in Names, p \in Passwords, v \in BOOLEAN : Register(u, PlainText, PlainText, p, v)
    \/ \E u \in Names, p \in Passwords, v \in BOOLEAN : Login(u, p, v)

Spec == Init /\ [][Next]_vars

\* the friends page, one request at a time
NextFriends ==
    \/ \E u \in Names : Register(u, PlainText, PlainText, DefaultPassword, TRUE)
    \/ \E u \in Names, t \in Names, v \in BOOLEAN : Friends(u, t, v)

SpecFriends == Init /\ [][NextFriends]_vars

\* the friends page under concurrent requests
NextConc ==
    \/ \E u \in TwoNames : Register(u, PlainText, PlainText, DefaultPassword, TRUE)
    \/ \E w \in Workers, u \in TwoNames, t \in TwoNames : FriendsGetUser(w, u, t)
    \/ \E w \in Workers : FriendsGetFriend(w)
    \/ \E w \in Workers : FriendsGetFriendList(w)
    \/ \E w \in Workers : FriendsCreate(w)
    \/ \E w \in Workers : FriendsRender(w)

SpecConc == Init /\ [][NextConc]_vars

\* the stream page: the store after "a", "b" and "c" registered, in this order
InitFeed ==
    /\ users = create_user(create_user(create_user(<<>>,
                  <<"a">>, PlainText, PlainText, generate_password_hash(DefaultPassword)).table,
                  <<"b">>, PlainText, PlainText, generate_password_hash(DefaultPassword)).table,
                  <<"c">>, PlainText, PlainText, generate_password_hash(DefaultPassword)).table
    /\ posts = <<>>
    /\ comments = <<>>
    /\ friends = <<>>
    /\ clock = 0
    /\ req = Request("", "", <<>>, 0, FALSE, <<>>)
    /\ resp = Response("none", "", "", <<>>)
    /\ workers = [w \in Workers |-> Idle]

NextFeed ==
    \/ \E u \in TwoNames, t \in TwoNames : Friends(u, t, TRUE)
    \/ \E u \in Names, v \in BOOLEAN : Stream(u, PlainText, Image, v)
    \/ Tick

SpecFeed == InitFeed /\ [][NextFeed]_vars

\* every page's form, with plain text in it
NextPages ==
    \/ \E u \in TwoNames, v \in BOOLEAN :
          Register(u, PlainText, PlainText, DefaultPassword, v)
    \/ \E u \in OneName, v \in BOOLEAN : Stream(u, PlainText, Image, v)
    \/ \E u \in OneName, i \in PostIds, v \in BOOLEAN : Comments(u, i, PlainText, v)
    \/ \E u \in TwoNames, t \in TwoNames, v \in BOOLEAN : Friends(u, t, v)
    \/ \E u \in TwoNames, v \in BOOLEAN :
          Profile(u, PlainText, PlainText, PlainText, PlainText, PlainText,
                  <<"1">>, v)

SpecPages == Init /\ [][NextPages]_vars

\* one user's writes, with markup in the text
NextText ==
    \/ \E f \in Texts, l \in Texts :
          Register(<<"a">>, f, l, DefaultPassword, TRUE)
    \/ \E c \in Texts : Stream(<<"a">>, c, Image, TRUE)
    \/ \E c \in Texts : Comments(<<"a">>, 1, c, TRUE)
    \/ \E f \in ProfileForms, b \in Birthdays :
          Profile(<<"a">>, f[1], f[2], f[3], f[4], f[5], b, TRUE)

SpecText == Init /\ [][NextText]_vars

\* the profile page with two users in the store
NextProfile ==
    \/ \E u \in TwoNames : Register(u, PlainText, PlainText, DefaultPassword, TRUE)
    \/ \E u \in Names, f \in ProfileForms, b \in Birthdays :
          Profile(u, f[1], f[2], f[3], f[4], f[5], b, TRUE)

SpecProfile == Init /\ [][NextProfile]_vars
====
